---- MODULE Spec2Model ----
(***************************************************************************)
(* A model of the goscheme evaluator (eval.go).  The Go call stack is an   *)
(* explicit sequence of activation frames: one frame per invocation of     *)
(* Eval or EvalAll.  The helpers evalIf, evalBegin, evalAnd, ... run       *)
(* inside the frame of the Eval invocation that called them; every         *)
(* recursive call Eval(e, env) they make pushes a new Eval frame.          *)
(* A Go panic unwinds the frames until a frame of EvalAll recovers it.     *)
(***************************************************************************)
EXTENDS Integers, Sequences, FiniteSets, TLC

\* ------------------------------------------------------------------ bounds
MaxCount == 4
MaxOperands == 3
MaxClauses == 3

\* ------------------------------------------------- the Expression sum type
\* Every Expression is a record [t, v]: t is the Go dynamic type.
Str(s) == [t |-> "str", v |-> s]
List(s) == [t |-> "list", v |-> s]
Number(n) == [t |-> "num", v |-> n]
Boolean(b) == [t |-> "bool", v |-> b]
String(s) == [t |-> "String", v |-> s]
Quote(s) == [t |-> "quote", v |-> s]
Pair(car, cdr) == [t |-> "pair", v |-> <<car, cdr>>]
NullPair == [t |-> "pair", v |-> <<>>]
LambdaProcess(params, body, env) == [t |-> "lambda", v |-> [params |-> params, body |-> body, env |-> env]]
Function(name) == [t |-> "builtin", v |-> name]
NewThunk(exp, env) == [t |-> "thunk", v |-> [exp |-> exp, env |-> env]]
NilObj == [t |-> "nil", v |-> 0]
undefObj == [t |-> "undef", v |-> 0]
GoNil == [t |-> "gonil", v |-> 0]
PanicValue(msg) == [t |-> "panic", v |-> msg]

IsPanic(x) == x.t = "panic"

\* --------------------------------------------------- token classification
NumeralValue == ("0" :> 0) @@ ("1" :> 1) @@ ("2" :> 2) @@ ("3" :> 3) @@ ("4" :> 4) @@ ("5" :> 5) @@ ("6" :> 6) @@ ("7" :> 7) @@ ("8" :> 8) @@ ("9" :> 9)

StringText == ("\"hi\"" :> "hi")

IsNumber(exp) == \/ exp.t = "num"
                 \/ exp.t = "str" /\ exp.v \in DOMAIN NumeralValue

IsBoolean(exp) == \/ exp.t = "bool"
                  \/ exp.t = "str" /\ exp.v \in {"#t", "#f"}

IsString(exp) == exp.t = "str" /\ exp.v \in DOMAIN StringText

IsSymbol(exp) == exp.t = "str" /\ ~IsNumber(exp) /\ ~IsBoolean(exp) /\ ~IsString(exp)

isUndefObj(exp) == exp.t = "undef"

isNullExp(exp) == \/ exp.t = "gonil"
                  \/ exp.t = "nil"
                  \/ exp.t = "pair" /\ Len(exp.v) = 0
                  \/ exp.t = "list" /\ Len(exp.v) = 0

IsTrue(exp) == IF exp.t = "bool" THEN exp.v
               ELSE IF exp.t = "str" THEN exp.v # "#f"
               ELSE ~isNullExp(exp)

IsSpecialSyntaxExpression(exp, name) ==
    /\ exp.t = "list"
    /\ Len(exp.v) > 0
    /\ exp.v[1].t = "str"
    /\ exp.v[1].v = name

isQuoteExpression(exp) ==
    \/ exp.t = "str" /\ exp.v = "quote"
    \/ exp.t = "list" /\ exp.v[1].t = "str" /\ exp.v[1].v = "quote"

expressionToNumber(exp) ==
    IF ~IsNumber(exp) THEN PanicValue("is not a number")
    ELSE IF exp.t = "num" THEN exp
    ELSE Number(NumeralValue[exp.v])

expToString(exp) == String(StringText[exp.v])

Symbol(s) == [t |-> "symbol", v |-> s]

transExpressionToSymbol(s) ==
    IF IsSymbol(s) THEN Symbol(s.v) ELSE PanicValue("is not a symbol")

\* the first panic among the elements of a sequence, or the sequence itself
RECURSIVE FirstPanic(_, _)
FirstPanic(seq, dflt) ==
    IF seq = <<>> THEN dflt
    ELSE IF IsPanic(seq[1]) THEN seq[1]
    ELSE FirstPanic(Tail(seq), dflt)

\* ---------------------------------------------------------------- lists
RECURSIVE listImpl(_)
listImpl(args) ==
    IF args = <<>> THEN NullPair ELSE Pair(args[1], listImpl(Tail(args)))

RECURSIVE isList(_)
isList(exp) ==
    /\ exp.t = "pair"
    /\ \/ Len(exp.v) = 0
       \/ isList(exp.v[2])

RECURSIVE extractList(_)
extractList(p) ==
    IF Len(p.v) = 0 THEN <<>> ELSE <<p.v[1]>> \o extractList(p.v[2])

RECURSIVE validEvalExp(_)
validEvalExp(exp) ==
    IF exp.t = "pair"
    THEN /\ isList(exp)
         /\ \/ Len(exp.v) = 0
            \/ validEvalExp(exp.v[1]) /\ validEvalExp(exp.v[2])
    ELSE TRUE

\* ---------------------------------------------------------------- quote
RECURSIVE evalQuote(_)
evalQuote(exp) ==
    IF exp.t = "num" THEN exp
    ELSE IF exp.t = "str"
    THEN IF IsNumber(exp) THEN expressionToNumber(exp)
         ELSE IF IsString(exp) THEN expToString(exp)
         ELSE Quote(exp.v)
    ELSE IF exp.t = "list"
    THEN LET args == [i \in 1..Len(exp.v) |-> evalQuote(exp.v[i])]
         IN  FirstPanic(args, listImpl(args))
    ELSE PanicValue("invalid quote argument")

\* ------------------------------------------------------- cond desugaring
makeIf(condition, trueExp, elseExp) == List(<<Str("if"), condition, trueExp, elseExp>>)

condClauses(exp) == Tail(exp.v)

conditionOfClause(exp) == exp.v[1]

processesOfClause(exp) == List(Tail(exp.v))

isElseClause(clause) ==
    clause.t = "list" /\ clause.v[1].t = "str" /\ clause.v[1].v = "else"

sequenceToExp(exp) ==
    IF exp.t = "list" THEN List(<<Str("begin")>> \o exp.v) ELSE exp

\* condClausesToIf without the check of the position of else
RECURSIVE condClausesToIfAnyElse(_)
condClausesToIfAnyElse(exp) ==
    IF exp = <<>> THEN undefObj
    ELSE LET first == exp[1]
             rest == Tail(exp)
         IN  IF isElseClause(first) THEN sequenceToExp(processesOfClause(first))
             ELSE makeIf(conditionOfClause(first), sequenceToExp(processesOfClause(first)),
                         condClausesToIfAnyElse(rest))

RECURSIVE condClausesToIf(_)
condClausesToIf(exp) ==
    IF exp = <<>> THEN undefObj
    ELSE LET first == exp[1]
             rest == Tail(exp)
         IN  IF first.t # "list" THEN PanicValue("interface conversion: not []Expression")
             ELSE IF Len(first.v) = 0 THEN PanicValue("index out of range")
             ELSE IF isElseClause(first)
             THEN IF Len(rest) # 0
                  THEN PanicValue("else clause must in the last position: cond->if")
                  ELSE sequenceToExp(processesOfClause(first))
             ELSE LET tailIf == condClausesToIf(rest)
                  IN  IF IsPanic(tailIf) THEN tailIf
                      ELSE makeIf(conditionOfClause(first),
                                  sequenceToExp(processesOfClause(first)), tailIf)

expandCond(exp) == condClausesToIf(condClauses(exp))

\* ------------------------------------- if: the selectors of evalIf
elseExpOfIfExpression(exp) == IF Len(exp.v) < 4 THEN undefObj ELSE exp.v[4]

\* ------------------------------------------------ printing and re-parsing
NumeralOf(n) == CHOOSE s \in DOMAIN NumeralValue : NumeralValue[s] = n

RECURSIVE valueToString(_)
RECURSIVE listToString(_)
valueToString(val) ==
    IF val.t = "num" THEN <<NumeralOf(val.v)>>
    ELSE IF val.t = "bool" THEN <<IF val.v THEN "#t" ELSE "#f">>
    ELSE IF val.t = "quote" THEN <<val.v>>
    ELSE IF val.t = "String" THEN <<CHOOSE s \in DOMAIN StringText : StringText[s] = val.v>>
    ELSE IF val.t = "pair" THEN <<"(">> \o listToString(val) \o <<")">>
    ELSE <<"#[unprintable]">>
listToString(p) ==
    IF Len(p.v) = 0 THEN <<>> ELSE valueToString(p.v[1]) \o listToString(p.v[2])

\* Parse: tokens -> the list of top-level forms, or the error.  ParseOne returns the
\* form read and the tokens left; ParseSeq reads forms up to a ")".
RECURSIVE ParseOne(_)
RECURSIVE ParseSeq(_)
ParseOne(tokens) ==
    IF tokens = <<>> THEN [exp |-> PanicValue("unexpected EOF"), rest |-> <<>>]
    ELSE IF tokens[1] = ")" THEN [exp |-> PanicValue("unexpected )"), rest |-> <<>>]
    ELSE IF tokens[1] = "("
    THEN LET r == ParseSeq(Tail(tokens))
         IN  IF IsPanic(r.exp) THEN r
             ELSE IF r.rest = <<>> THEN [exp |-> PanicValue("missing )"), rest |-> <<>>]
             ELSE [exp |-> r.exp, rest |-> Tail(r.rest)]
    ELSE [exp |-> Str(tokens[1]), rest |-> Tail(tokens)]
ParseSeq(tokens) ==
    IF tokens = <<>> \/ tokens[1] = ")" THEN [exp |-> List(<<>>), rest |-> tokens]
    ELSE LET one == ParseOne(tokens)
         IN  IF IsPanic(one.exp) THEN one
             ELSE LET more == ParseSeq(one.rest)
                  IN  IF IsPanic(more.exp) THEN more
                      ELSE [exp |-> List(<<one.exp>> \o more.exp.v), rest |-> more.rest]

Parse(tokens) ==
    LET r == ParseSeq(tokens)
    IN  IF IsPanic(r.exp) THEN r.exp
        ELSE IF r.rest # <<>> THEN PanicValue("unexpected )")
        ELSE r.exp

\* ------------------------------------------------------------ environment
\* heap[e] is the Env allocated e-th: its outer link (0 is nil) and frame.
Find(h, env, s) ==
    LET RECURSIVE walk(_)
        walk(e) == IF e = 0 THEN PanicValue("unbound symbol")
                   ELSE IF s \in DOMAIN h[e].frame THEN h[e].frame[s]
                   ELSE walk(h[e].outer)
    IN  walk(env)

Set(h, env, s, val) == [h EXCEPT ![env].frame = (s :> val) @@ @]

NewEnv(outer) == [outer |-> outer, frame |-> <<>>]

\* ---------------------------------------------------------------- builtins
BuiltinNames == {"+", "-", "=", "display"}

RootFrame == [s \in BuiltinNames |-> Function(s)]

Call(name, args) ==
    IF name = "display"
    THEN IF Len(args) # 1 THEN PanicValue("display require 1 argument") ELSE undefObj
    ELSE IF Len(args) # 2 \/ args[1].t # "num" \/ args[2].t # "num"
    THEN PanicValue("is not a number")
    ELSE IF name = "+" THEN Number(args[1].v + args[2].v)
    ELSE IF name = "-" THEN Number(args[1].v - args[2].v)
    ELSE Boolean(args[1].v = args[2].v)

Body(p) == List(<<Str("begin")>> \o p.v.body)

\* --------------------------------------------------------------- programs
\* The parsed top-level forms handed to EvalAll.  A program is named by a
\* family, a number n and a sequence of flags.
Num(k) == Str(NumeralOf(k))
Display(k) == List(<<Str("display"), Num(k)>>)
\* an expression that prints k and then has the value of e
Mark(k, e) == List(<<Str("begin"), Display(k), e>>)
Define(s, e) == List(<<Str("define"), Str(s), e>>)
\* an operand literal: #t, #f, or the number 5
BoolLit(f) == Str(IF f = "t" THEN "#t" ELSE IF f = "f" THEN "#f" ELSE "5")
Lambda2 == List(<<Str("lambda"), List(<<Str("a"), Str("b")>>), Display(9), Str("a")>>)

\* the three fatal errors of a top-level form
BadForm(f) ==
    CASE f = "unbound" -> Str("nosuch")
      [] f = "notcallable" -> List(<<Num(5)>>)
      [] f = "arity" -> List(<<Lambda2, Num(1)>>)
      [] OTHER -> List(<<Str("+"), Num(1), Num(2)>>)

ErrorKinds == {"unbound", "notcallable", "arity", "none"}

LoopDef(variant) ==
    LET test == List(<<Str("="), Str("n"), Num(0)>>)
        again == List(<<Str("loop"), List(<<Str("-"), Str("n"), Num(1)>>)>>)
        head == List(<<Str("loop"), Str("n")>>)
    IN  CASE variant = "if" ->
               List(<<Str("define"), head, List(<<Str("if"), test, Num(0), again>>)>>)
          [] variant = "begin" ->
               List(<<Str("define"), head,
                      List(<<Str("if"), test, Num(0),
                             List(<<Str("begin"), Display(7), again>>)>>)>>)
          [] variant = "cond" ->
               List(<<Str("define"), head,
                      List(<<Str("cond"), List(<<test, Num(0)>>),
                             List(<<Str("else"), again>>)>>)>>)

CondClause(i, f) ==
    IF f = "else" THEN List(<<Str("else"), Display(i + 5), Num(i)>>)
    ELSE List(<<Mark(i, BoolLit(f)), Display(i + 5), Num(i)>>)

OperatorExp(f) ==
    CASE f = "builtin" -> Str("+")
      [] f = "closure" -> Lambda2
      [] f = "number" -> Num(5)

Families == {"seq", "countdown", "condloop", "scope", "logic", "cond", "variadic",
             "evalerr", "delay", "order", "apply"}

Forms(name, n, flags) ==
    CASE name = "seq" ->
           <<Define("before", Num(1)), BadForm(flags[1]), Define("after", Num(2))>>
      [] name = "countdown" -> <<LoopDef(flags[1]), List(<<Str("loop"), Num(n)>>)>>
      [] name = "condloop" -> <<LoopDef("cond"), List(<<Str("loop"), Num(n)>>)>>
      [] name = "scope" ->
           <<Define("x", Num(1)),
             List(<<Str("define"), List(<<Str("f"), Str("y")>>),
                    List(<<Str("+"), Str("x"), Str("y")>>)>>),
             List(<<Str("define"), List(<<Str("caller"), Str("x")>>),
                    List(<<Str("f"), Str("x")>>)>>),
             List(<<Str("caller"), Num(n)>>)>>
      [] name = "logic" ->
           <<List(<<Str(flags[1])>> \o
                  [i \in 1..(Len(flags) - 1) |-> Mark(i, BoolLit(flags[i + 1]))])>>
      [] name = "cond" ->
           <<List(<<Str("cond")>> \o [i \in 1..Len(flags) |-> CondClause(i, flags[i])])>>
      [] name = "variadic" ->
           <<Define("r", List(<<List(<<Str("lambda"), Str("args"), Str("args")>>)>> \o
                              [i \in 1..n |-> Num(i)]))>>
      [] name = "evalerr" ->
           <<List(<<Str("begin"),
                    Define("r", List(<<Str("eval"), List(<<Str("quote"), BadForm(flags[1])>>)>>)),
                    Define("after", Num(2))>>)>>
      [] name = "delay" ->
           <<Define("p", List(<<Str("delay")>> \o [i \in 1..n |-> Display(i)]))>>
      [] name = "order" ->
           <<List(<<Mark(0, OperatorExp(flags[1]))>> \o [i \in 1..n |-> Mark(i, Num(i))])>>
      [] name = "apply" ->
           <<List(<<Str("apply"), Lambda2,
                    List(<<Str("quote"), List(<<Num(n), Str("\"hi\"")>>)>>)>>)>>

FlagSeqs(S, lo, hi) == UNION {[1..k -> S] : k \in lo..hi}

NsOf(name) ==
    CASE name \in {"countdown", "condloop"} -> 0..MaxCount
      [] name \in {"variadic", "delay", "order"} -> 0..MaxOperands
      [] name = "scope" -> 2..3
      [] name = "apply" -> 1..2
      [] OTHER -> {0}

FlagsOf(name) ==
    CASE name \in {"seq", "evalerr"} -> FlagSeqs(ErrorKinds, 1, 1)
      [] name = "countdown" -> FlagSeqs({"if", "begin"}, 1, 1)
      [] name = "logic" ->
           {<<op>> \o fs : op \in {"and", "or"}, fs \in FlagSeqs({"t", "f", "n"}, 0, MaxOperands)}
      [] name = "cond" -> FlagSeqs({"t", "f", "else"}, 0, MaxClauses)
      [] name = "order" -> FlagSeqs({"builtin", "closure", "number"}, 1, 1)
      [] OTHER -> {<<>>}

\* ------------------------------------------------------------------ state
VARIABLES prog, stack, heap, ret, panicv, out

vars == <<prog, stack, heap, ret, panicv, out>>

EvalFrame(e, env) ==
    [fn |-> "Eval", exp |-> e, env |-> env, pc |-> "loop", i |-> 0,
     acc |-> <<>>, p |-> GoNil, newEnv |-> 0, forms |-> <<>>, ret |-> GoNil]

EvalAllFrame(exps, env) ==
    [fn |-> "EvalAll", exp |-> GoNil, env |-> env, pc |-> "loop", i |-> 1,
     acc |-> <<>>, p |-> GoNil, newEnv |-> 0, forms |-> exps, ret |-> GoNil]

Init ==
    /\ \E name \in Families :
          \E n \in NsOf(name), flags \in FlagsOf(name) :
             /\ prog = [name |-> name, n |-> n, flags |-> flags]
             /\ stack = <<EvalAllFrame(Forms(name, n, flags), 1)>>
    /\ heap = <<[outer |-> 0, frame |-> RootFrame]>>
    /\ ret = GoNil
    /\ panicv = ""
    /\ out = <<>>

\* ------------------------------------------------------- control transfer
T == stack[Len(stack)]
Pop == SubSeq(stack, 1, Len(stack) - 1)
SetTop(f) == [stack EXCEPT ![Len(stack)] = f]

Running == stack # <<>> /\ panicv = ""
At(pc) == Running /\ T.fn = "Eval" /\ T.pc = pc
InEvalAll(pc) == Running /\ T.fn = "EvalAll" /\ T.pc = pc

Return(val) == stack' = Pop /\ ret' = val /\ panicv' = panicv
Panic(msg) == panicv' = msg /\ UNCHANGED <<stack, ret>>
Finish(x) == IF IsPanic(x) THEN Panic(x.v) ELSE Return(x)
CallEval(f, e, env) ==
    stack' = Append(SetTop(f), EvalFrame(e, env)) /\ UNCHANGED <<ret, panicv>>
Continue(f) == stack' = SetTop(f) /\ UNCHANGED <<ret, panicv>>

IndexPanic == "runtime error: index out of range"
SlicePanic == "runtime error: slice bounds out of range"

\* the branch of Eval's if-else chain that an expression takes
\* (a load form reads files through the file interpreter; no program here
\* has one, and no action takes that branch)
Branch(exp) ==
    IF isNullExp(exp) THEN "null"
    ELSE IF isUndefObj(exp) THEN "undef"
    ELSE IF IsNumber(exp) THEN "number"
    ELSE IF IsBoolean(exp) THEN "boolean"
    ELSE IF IsString(exp) THEN "string"
    ELSE IF IsSymbol(exp) THEN "symbol"
    ELSE IF IsSpecialSyntaxExpression(exp, "define") THEN "define"
    ELSE IF IsSpecialSyntaxExpression(exp, "eval") THEN "eval"
    ELSE IF IsSpecialSyntaxExpression(exp, "apply") THEN "apply"
    ELSE IF IsSpecialSyntaxExpression(exp, "if") THEN "if"
    ELSE IF IsSpecialSyntaxExpression(exp, "cond") THEN "cond"
    ELSE IF IsSpecialSyntaxExpression(exp, "begin") THEN "begin"
    ELSE IF IsSpecialSyntaxExpression(exp, "lambda") THEN "lambda"
    ELSE IF IsSpecialSyntaxExpression(exp, "load") THEN "load"
    ELSE IF IsSpecialSyntaxExpression(exp, "delay") THEN "delay"
    ELSE IF IsSpecialSyntaxExpression(exp, "and") THEN "and"
    ELSE IF IsSpecialSyntaxExpression(exp, "or") THEN "or"
    ELSE IF exp.t # "list" THEN "bottom"
    ELSE IF isQuoteExpression(exp) THEN "quote"
    ELSE "application"

AtBranch(b) == At("loop") /\ Branch(T.exp) = b

\* the frame of the running Eval after "exp = e": back to the top of the loop
LoopWith(f, e) == [f EXCEPT !.exp = e, !.pc = "loop", !.i = 0]

\* ------------------------------------------------------------- Eval: atoms
EvalNull ==
    /\ At("loop")
    /\ Branch(T.exp) \in {"null", "undef"}
    /\ Return(IF isNullExp(T.exp) THEN NilObj ELSE undefObj)
    /\ UNCHANGED <<prog, heap, out>>

EvalSelf ==
    /\ At("loop")
    /\ Branch(T.exp) \in {"number", "boolean", "string"}
    /\ Finish(IF IsNumber(T.exp) THEN expressionToNumber(T.exp)
              ELSE IF IsBoolean(T.exp) THEN Boolean(IsTrue(T.exp))
              ELSE expToString(T.exp))
    /\ UNCHANGED <<prog, heap, out>>

EvalSymbol ==
    /\ AtBranch("symbol")
    /\ Finish(Find(heap, T.env, T.exp.v))
    /\ UNCHANGED <<prog, heap, out>>

EvalBottom ==
    /\ AtBranch("bottom")
    /\ Return(T.exp)
    /\ UNCHANGED <<prog, heap, out>>

\* ---------------------------------------------------------------- define
makeLambdaProcess(paramNames, body, env) == LambdaProcess(paramNames, body, env)

EvalDefine ==
    /\ AtBranch("define")
    /\ UNCHANGED <<prog, out>>
    /\ IF Len(T.exp.v) < 2 THEN Panic(IndexPanic) /\ heap' = heap
       ELSE LET s == T.exp.v[2]
                val == SubSeq(T.exp.v, 3, Len(T.exp.v))
            IN  IF s.t = "list"
                THEN LET symbols == [i \in 1..Len(s.v) |-> transExpressionToSymbol(s.v[i])]
                         bad == FirstPanic(symbols, GoNil)
                     IN  IF IsPanic(bad) THEN Panic(bad.v) /\ heap' = heap
                         ELSE IF Len(symbols) < 1 THEN Panic(SlicePanic) /\ heap' = heap
                         ELSE /\ heap' = Set(heap, T.env, symbols[1].v,
                                             makeLambdaProcess([i \in 1..(Len(symbols) - 1) |-> symbols[i + 1].v],
                                                               val, T.env))
                              /\ Return(undefObj)
                ELSE /\ heap' = heap
                     /\ IF Len(val) # 1
                        THEN Panic("define: bad syntax (multiple expressions after identifier")
                        ELSE IF IsPanic(transExpressionToSymbol(s))
                        THEN Panic(transExpressionToSymbol(s).v)
                        ELSE CallEval([T EXCEPT !.pc = "define_wait"], val[1], T.env)

EvalDefineSet ==
    /\ At("define_wait")
    /\ heap' = Set(heap, T.env, T.exp.v[2].v, ret)
    /\ Return(undefObj)
    /\ UNCHANGED <<prog, out>>

\* ------------------------------------------------------------ if and begin
EvalIfTest ==
    /\ AtBranch("if")
    /\ IF Len(T.exp.v) < 2 THEN Panic(IndexPanic)
       ELSE CallEval([T EXCEPT !.pc = "if_wait"], T.exp.v[2], T.env)
    /\ UNCHANGED <<prog, heap, out>>

EvalIfBranch ==
    /\ At("if_wait")
    /\ IF IsTrue(ret)
       THEN IF Len(T.exp.v) < 3 THEN Panic(IndexPanic)
            ELSE Continue(LoopWith(T, T.exp.v[3]))
       ELSE Continue(LoopWith(T, elseExpOfIfExpression(T.exp)))
    /\ UNCHANGED <<prog, heap, out>>

\* evalBegin: T.i is the index of the sub-expression whose Eval has returned
EvalBegin ==
    /\ AtBranch("begin") \/ At("begin_wait")
    /\ LET n == Len(T.exp.v)
           next == IF T.pc = "loop" THEN 2 ELSE T.i + 1
       IN  IF n < 2 THEN Panic(SlicePanic)
           ELSE IF next < n
           THEN CallEval([T EXCEPT !.pc = "begin_wait", !.i = next], T.exp.v[next], T.env)
           ELSE Continue(LoopWith(T, T.exp.v[n]))
    /\ UNCHANGED <<prog, heap, out>>

\* ------------------------------------------------------------------- cond
EvalCond ==
    /\ AtBranch("cond")
    /\ LET equalIfExp == expandCond(T.exp)
       IN  IF IsPanic(equalIfExp) THEN Panic(equalIfExp.v)
           ELSE CallEval([T EXCEPT !.pc = "cond_wait"], equalIfExp, T.env)
    /\ UNCHANGED <<prog, heap, out>>

EvalCondReturn ==
    /\ At("cond_wait")
    /\ Return(ret)
    /\ UNCHANGED <<prog, heap, out>>

\* ------------------------------------------------------------- and, or
\* an and that looks at every operand
evalAndNeverDecided(val) == FALSE

evalAndDecided(val) == ~IsTrue(val)

evalOrDecided(val) == IsTrue(val)

EvalAnd ==
    /\ AtBranch("and") \/ At("and_wait")
    /\ IF T.pc = "loop"
       THEN IF Len(T.exp.v) < 2 THEN Panic("and require at least 1 argument")
            ELSE CallEval([T EXCEPT !.pc = "and_wait", !.i = 2], T.exp.v[2], T.env)
       ELSE IF evalAndDecided(ret) THEN Return(Boolean(FALSE))
            ELSE IF T.i < Len(T.exp.v)
            THEN CallEval([T EXCEPT !.i = T.i + 1], T.exp.v[T.i + 1], T.env)
            ELSE Return(Boolean(TRUE))
    /\ UNCHANGED <<prog, heap, out>>

EvalOr ==
    /\ AtBranch("or") \/ At("or_wait")
    /\ IF T.pc = "loop"
       THEN IF Len(T.exp.v) < 2 THEN Panic("or require at least 1 argument")
            ELSE CallEval([T EXCEPT !.pc = "or_wait", !.i = 2], T.exp.v[2], T.env)
       ELSE IF evalOrDecided(ret) THEN Return(Boolean(TRUE))
            ELSE IF T.i < Len(T.exp.v)
            THEN CallEval([T EXCEPT !.i = T.i + 1], T.exp.v[T.i + 1], T.env)
            ELSE Return(Boolean(FALSE))
    /\ UNCHANGED <<prog, heap, out>>

\* ---------------------------------------------------- lambda, delay, quote
evalLambda(exp, env) ==
    IF Len(exp.v) < 2 THEN PanicValue(IndexPanic)
    ELSE LET paramOperand == exp.v[2]
             body == SubSeq(exp.v, 3, Len(exp.v))
             syms == IF paramOperand.t = "list"
                     THEN [i \in 1..Len(paramOperand.v) |-> transExpressionToSymbol(paramOperand.v[i])]
                     ELSE <<transExpressionToSymbol(paramOperand)>>
         IN  FirstPanic(syms, makeLambdaProcess([i \in 1..Len(syms) |-> syms[i].v], body, env))

EvalLambda ==
    /\ AtBranch("lambda")
    /\ Finish(evalLambda(T.exp, T.env))
    /\ UNCHANGED <<prog, heap, out>>

evalDelay(exp, env) ==
    IF Len(exp.v) < 2 THEN PanicValue("delay require one argument")
    ELSE NewThunk(exp.v[2], env)

EvalDelay ==
    /\ AtBranch("delay")
    /\ Finish(evalDelay(T.exp, T.env))
    /\ UNCHANGED <<prog, heap, out>>

EvalQuote ==
    /\ AtBranch("quote")
    /\ IF Len(T.exp.v) < 2 THEN Panic(IndexPanic) ELSE Finish(evalQuote(T.exp.v[2]))
    /\ UNCHANGED <<prog, heap, out>>

\* ------------------------------------------------------------------- eval
EvalEvalArg ==
    /\ AtBranch("eval")
    /\ IF Len(T.exp.v) < 2 THEN Panic(IndexPanic)
       ELSE CallEval([T EXCEPT !.pc = "eval_arg"], T.exp.v[2], T.env)
    /\ UNCHANGED <<prog, heap, out>>

\* evalEval running the parsed forms in a plain Eval, with no recover
evalEvalFormsUnprotected(parsed, env) == EvalFrame(List(<<Str("begin")>> \o parsed), env)

\* the activation evalEval starts for the forms it parsed
evalEvalForms(parsed, env) == EvalAllFrame(parsed, env)

EvalEvalRun ==
    /\ At("eval_arg")
    /\ IF ~validEvalExp(ret) THEN Panic("error: malformed list")
       ELSE LET parsed == Parse(valueToString(ret))
            IN  IF IsPanic(parsed) THEN Panic(parsed.v)
                ELSE /\ stack' = Append(SetTop([T EXCEPT !.pc = "eval_wait"]),
                                        evalEvalForms(parsed.v, T.env))
                     /\ UNCHANGED <<ret, panicv>>
    /\ UNCHANGED <<prog, heap, out>>

EvalEvalReturn ==
    /\ At("eval_wait")
    /\ Return(ret)
    /\ UNCHANGED <<prog, heap, out>>

\* ------------------------------------------------------------------ apply
EvalApplyProc ==
    /\ AtBranch("apply")
    /\ IF Len(T.exp.v) - 1 # 2 THEN Panic("apply require 2 arguments")
       ELSE CallEval([T EXCEPT !.pc = "apply_proc"], T.exp.v[2], T.env)
    /\ UNCHANGED <<prog, heap, out>>

EvalApplyArg ==
    /\ At("apply_proc")
    /\ CallEval([T EXCEPT !.pc = "apply_arg", !.p = ret], T.exp.v[3], T.env)
    /\ UNCHANGED <<prog, heap, out>>

EvalApplyRun ==
    /\ At("apply_arg")
    /\ IF ~isList(ret) THEN Panic("argument must be a list")
       ELSE CallEval([T EXCEPT !.pc = "apply_wait"], List(<<T.p>> \o extractList(ret)), T.env)
    /\ UNCHANGED <<prog, heap, out>>

EvalApplyReturn ==
    /\ At("apply_wait")
    /\ Return(ret)
    /\ UNCHANGED <<prog, heap, out>>

\* ------------------------------------------------------------ application
AppOperator ==
    /\ AtBranch("application")
    /\ CallEval([T EXCEPT !.pc = "app_fn"], T.exp.v[1], T.env)
    /\ UNCHANGED <<prog, heap, out>>

\* operands taken right to left
OperandIndexReversed(nargs, k) == nargs + 1 - k

\* the operand evaluated k-th among nargs operands
OperandIndex(nargs, k) == k

\* case Function: the operands one by one, then p.Call(args...)
BuiltinStep(f) ==
    LET nargs == Len(f.exp.v) - 1
    IN  IF Len(f.acc) < nargs
        THEN /\ CallEval([f EXCEPT !.pc = "builtin_arg"],
                         f.exp.v[OperandIndex(nargs, Len(f.acc) + 1) + 1], f.env)
             /\ out' = out
        ELSE /\ Finish(Call(f.p.v, f.acc))
             /\ out' = IF f.p.v = "display" /\ Len(f.acc) = 1 THEN Append(out, f.acc[1])
                       ELSE out

AppFunction ==
    /\ At("app_fn")
    /\ ret.t = "builtin"
    /\ BuiltinStep([T EXCEPT !.p = ret, !.acc = <<>>])
    /\ UNCHANGED <<prog, heap>>

AppFunctionArg ==
    /\ At("builtin_arg")
    /\ BuiltinStep([T EXCEPT !.acc = Append(@, ret)])
    /\ UNCHANGED <<prog, heap>>

\* dynamic scoping: the new frame is parented to the caller's environment
NewFrameOuterCaller(p, env) == env

\* the outer link of the frame of a closure call made from environment env
NewFrameOuter(p, env) == p.v.env

\* a closure call made by a nested Eval(p.Body(), newEnv)
TailCallNested(f) ==
    Append(SetTop([f EXCEPT !.pc = "cond_wait"]), EvalFrame(Body(f.p), f.newEnv))

\* exp = p.Body(); env = newEnv: the running Eval loops on the closure body
TailCall(f) ==
    SetTop([f EXCEPT !.exp = Body(f.p), !.env = f.newEnv, !.pc = "loop",
                     !.i = 0, !.p = GoNil, !.newEnv = 0])

\* case *LambdaProcess: h is the heap with the arguments bound so far
LambdaStep(f, h) ==
    LET nargs == Len(f.exp.v) - 1
    IN  /\ heap' = h
        /\ IF f.i < nargs
           THEN CallEval([f EXCEPT !.pc = "lambda_arg", !.i = f.i + 1], f.exp.v[f.i + 2], f.env)
           ELSE stack' = TailCall(f) /\ UNCHANGED <<ret, panicv>>

AppLambda ==
    /\ At("app_fn")
    /\ ret.t = "lambda"
    /\ LET h == Append(heap, NewEnv(NewFrameOuter(ret, T.env)))
       IN  IF Len(T.exp.v) - 1 # Len(ret.v.params)
           THEN heap' = h /\ Panic("arity mismatch")
           ELSE LambdaStep([T EXCEPT !.p = ret, !.newEnv = Len(h), !.i = 0], h)
    /\ UNCHANGED <<prog, out>>

AppLambdaArg ==
    /\ At("lambda_arg")
    /\ LambdaStep(T, Set(heap, T.newEnv, T.p.v.params[T.i], ret))
    /\ UNCHANGED <<prog, out>>

AppNotCallable ==
    /\ At("app_fn")
    /\ ret.t \notin {"builtin", "lambda"}
    /\ Panic("is not callable")
    /\ UNCHANGED <<prog, heap, out>>

\* ---------------------------------------------------------------- EvalAll
EvalAllStep ==
    /\ InEvalAll("loop")
    /\ T.i <= Len(T.forms)
    /\ CallEval([T EXCEPT !.pc = "wait"], T.forms[T.i], T.env)
    /\ UNCHANGED <<prog, heap, out>>

EvalAllAssign ==
    /\ InEvalAll("wait")
    /\ Continue([T EXCEPT !.ret = ret, !.i = @ + 1, !.pc = "loop"])
    /\ UNCHANGED <<prog, heap, out>>

EvalAllReturn ==
    /\ InEvalAll("loop")
    /\ T.i > Len(T.forms)
    /\ Return(T.ret)
    /\ UNCHANGED <<prog, heap, out>>

\* a panic leaves the Eval activations it passes through
Unwind ==
    /\ stack # <<>>
    /\ panicv # ""
    /\ T.fn = "Eval"
    /\ stack' = Pop
    /\ UNCHANGED <<prog, heap, ret, panicv, out>>

\* the deferred function of EvalAll: recover, print, return the named result
EvalAllRecover ==
    /\ stack # <<>>
    /\ panicv # ""
    /\ T.fn = "EvalAll"
    /\ out' = Append(out, PanicValue(panicv))
    /\ panicv' = ""
    /\ stack' = Pop
    /\ ret' = T.ret
    /\ UNCHANGED <<prog, heap>>

Next ==
    \/ EvalNull \/ EvalSelf \/ EvalSymbol \/ EvalBottom
    \/ EvalDefine \/ EvalDefineSet
    \/ EvalIfTest \/ EvalIfBranch \/ EvalBegin
    \/ EvalCond \/ EvalCondReturn
    \/ EvalAnd \/ EvalOr
    \/ EvalLambda \/ EvalDelay \/ EvalQuote
    \/ EvalEvalArg \/ EvalEvalRun \/ EvalEvalReturn
    \/ EvalApplyProc \/ EvalApplyArg \/ EvalApplyRun \/ EvalApplyReturn
    \/ AppOperator \/ AppFunction \/ AppFunctionArg
    \/ AppLambda \/ AppLambdaArg \/ AppNotCallable
    \/ EvalAllStep \/ EvalAllAssign \/ EvalAllReturn
    \/ Unwind \/ EvalAllRecover

Spec == Init /\ [][Next]_vars

\* ------------------------------------------------------- state functions
done == stack = <<>>

Bound(s) == s \in DOMAIN heap[1].frame

\* the numbers printed so far, in order; a recovered panic's message is -1
Printed == [i \in 1..Len(out) |-> IF out[i].t = "num" THEN out[i].v ELSE -1]

UpTo(lo, hi) == [i \in 1..(hi - lo + 1) |-> lo + i - 1]

Min(S) == CHOOSE x \in S : \A y \in S : x <= y

\* the number of Eval invocations active at once
EvalDepth == Cardinality({i \in 1..Len(stack) : stack[i].fn = "Eval"})

\* the positions in the stack of the Eval invocations running a closure body
BodyFrames ==
    {i \in 1..Len(stack) : /\ stack[i].fn = "Eval"
                           /\ stack[i].env > 1
                           /\ stack[i].env = Len(heap)}

\* the operand literals that are true
Truthy(f) == f \in {"t", "n"}

\* ------------------------------------------------------------------ claims

\* C1: when a form of the sequence given to EvalAll raises a fatal error,
\* the error is reported and the later forms of the sequence are still
\* evaluated: the define that follows the failing form has taken place
\* when EvalAll returns.
C1_LaterFormsEvaluated ==
    (done /\ prog.name = "seq") => (Bound("before") /\ Bound("after"))

\* C2: a closure calling itself in tail position through if and begin runs
\* with at most three Eval invocations active, whatever the count; every
\* closure body is run by the Eval invocation that ran the first call; and
\* the evaluation returns the final value 0 without an error.
C2_TailCallBounded ==
    prog.name = "countdown" =>
        /\ EvalDepth <= 3
        /\ BodyFrames # {} => Min(BodyFrames) = 2
        /\ done => /\ ret.t = "num" /\ ret.v = 0
                   /\ Len(heap) = prog.n + 2
                   /\ Printed = [i \in 1..(IF prog.flags[1] = "begin" THEN prog.n ELSE 0) |-> 7]

C2_Witness ==
    /\ done
    /\ prog.name = "countdown"
    /\ prog.n = MaxCount
    /\ prog.flags[1] = "begin"
    /\ Len(heap) = MaxCount + 2
    /\ ret.t = "num" /\ ret.v = 0

\* C3: a closure calling itself in tail position inside a cond clause runs
\* with a nesting of Eval invocations that does not grow with the count:
\* at most the four invocations of a single pass, and every closure body is
\* run by the Eval invocation that ran the first call.
C3_CondTailCallBounded ==
    prog.name = "condloop" =>
        /\ EvalDepth <= 4
        /\ BodyFrames # {} => Min(BodyFrames) = 2

\* C4: the frame of a closure call is parented to the environment the
\* closure was created in (here the root), never to the caller's frame; the
\* operand is evaluated in the caller's environment, so y is bound to the
\* caller's x; and the free x of the body is the root's x, which is 1.
C4_LexicalScope ==
    prog.name = "scope" =>
        /\ \A e \in 2..Len(heap) :
              /\ heap[e].outer = 1
              /\ "y" \in DOMAIN heap[e].frame =>
                    (heap[e].frame["y"].t = "num" /\ heap[e].frame["y"].v = prog.n)
        /\ done => (ret.t = "num" /\ ret.v = 1 + prog.n)

C4_Witness ==
    /\ done
    /\ prog.name = "scope"
    /\ Len(heap) = 3
    /\ "x" \in DOMAIN heap[2].frame
    /\ "y" \in DOMAIN heap[3].frame
    /\ ret.t = "num" /\ ret.v = 1 + prog.n

\* C5: and/or evaluate their operands left to right up to the first one
\* that decides (a false operand for and, a true one for or) and no further;
\* the result is the boolean false/true then, and true/false when no
\* operand decides; it is a boolean even when the operand is a number; with
\* no operand at all the form is a fatal error.
C5_ShortCircuit ==
    (done /\ prog.name = "logic") =>
        LET kind == prog.flags[1]
            ops == Tail(prog.flags)
            Deciding == {i \in 1..Len(ops) : Truthy(ops[i]) = (kind = "or")}
            last == IF Deciding = {} THEN Len(ops) ELSE Min(Deciding)
        IN  IF ops = <<>> THEN Printed = <<-1>> /\ ret.t = "gonil"
            ELSE /\ Printed = UpTo(1, last)
                 /\ ret.t = "bool"
                 /\ ret.v = IF Deciding = {} THEN kind = "and" ELSE kind = "or"

C5_Witness ==
    /\ done
    /\ prog.name = "logic"
    /\ prog.flags = <<"and", "n", "f">> \o [i \in 1..(MaxOperands - 2) |-> "t"]
    /\ Printed = <<1, 2>>
    /\ ret.t = "bool" /\ ret.v = FALSE

\* C6: cond has the value of the body of the first clause whose test is true
\* (an else clause in last position matches), evaluating the tests before it
\* in order and nothing of a later clause; with no match and no else its
\* value is the unspecified sentinel; with an else clause that is not the
\* last one it is a fatal error and no test at all is evaluated.
C6_CondFirstMatch ==
    (done /\ prog.name = "cond") =>
        LET cl == prog.flags
            n == Len(cl)
            Matching == {i \in 1..n : cl[i] \in {"t", "else"}}
            k == Min(Matching)
        IN  IF \E i \in 1..(n - 1) : cl[i] = "else"
            THEN Printed = <<-1>> /\ ret.t = "gonil"
            ELSE IF Matching = {}
            THEN Printed = UpTo(1, n) /\ ret.t = "undef"
            ELSE /\ Printed = UpTo(1, IF cl[k] = "else" THEN k - 1 ELSE k) \o <<k + 5>>
                 /\ ret.t = "num" /\ ret.v = k

C6_Witness ==
    /\ done
    /\ prog.name = "cond"
    /\ Len(prog.flags) = MaxClauses
    /\ prog.flags[1] = "f" /\ prog.flags[2] = "t"
    /\ Printed = <<1, 2, 7>>
    /\ ret.t = "num" /\ ret.v = 2

\* C7: a closure made by lambda with a single symbol as its parameters is
\* variadic: applied to n operands, for any n, it succeeds and binds the
\* name to the list of the n arguments (here r is defined as that list).
C7_SingleSymbolVariadic ==
    (done /\ prog.name = "variadic") =>
        /\ out = <<>>
        /\ Bound("r")
        /\ heap[1].frame["r"] = listImpl([i \in 1..prog.n |-> Number(i)])

\* C8: an error raised while the forms that eval re-parsed are evaluated is
\* caught at the eval: a panic is only ever in flight above the EvalAll that
\* evalEval started, the eval form returns to the define that called it
\* (r gets bound), and the rest of the top-level form is evaluated (after
\* gets bound, the form has the value of its last define).
C8_EvalErrorsContained ==
    prog.name = "evalerr" =>
        /\ panicv # "" => \E i \in 2..Len(stack) : stack[i].fn = "EvalAll"
        /\ done => /\ Bound("r") /\ Bound("after")
                   /\ ret.t = "undef"
                   /\ IF prog.flags[1] = "none"
                      THEN out = <<>> /\ heap[1].frame["r"].t = "num" /\ heap[1].frame["r"].v = 3
                      ELSE Printed = <<-1>> /\ heap[1].frame["r"].t = "gonil"

C8_Witness ==
    /\ done
    /\ prog.name = "evalerr"
    /\ prog.flags[1] = "arity"
    /\ Printed = <<-1>>
    /\ Bound("r") /\ Bound("after")

\* C9: a delay form with zero operands or with two or more operands raises
\* a fatal error and makes no Thunk; with exactly one operand it makes a
\* Thunk of that operand, unevaluated, and of the current environment.
C9_DelayArity ==
    (done /\ prog.name = "delay") =>
        IF prog.n = 1
        THEN /\ out = <<>>
             /\ Bound("p")
             /\ heap[1].frame["p"].t = "thunk"
             /\ heap[1].frame["p"].v.exp = Display(1)
             /\ heap[1].frame["p"].v.env = 1
        ELSE Printed = <<-1>> /\ ~Bound("p")

\* C10: in an application the operator is evaluated first, then every
\* operand once, left to right, and only then is the operator's kind looked
\* at: the not-callable and the arity errors come after all the operands.
C10_OperandsBeforeDispatch ==
    (done /\ prog.name = "order") =>
        /\ Len(Printed) >= prog.n + 1
        /\ SubSeq(Printed, 1, prog.n + 1) = UpTo(0, prog.n)

\* C10 as amended: the operator is evaluated first; for a builtin, and for
\* a closure with as many parameters as operands, every operand is then
\* evaluated once, left to right, before the call or the body; the
\* not-callable and the arity errors are raised before any operand is
\* evaluated.
C10_DispatchOrder ==
    (done /\ prog.name = "order") =>
        LET kind == prog.flags[1]
        IN  IF kind = "builtin"
            THEN Printed = UpTo(0, prog.n) \o (IF prog.n = 2 THEN <<>> ELSE <<-1>>)
            ELSE IF kind = "closure" /\ prog.n = 2
            THEN Printed = <<0, 1, 2, 9>>
            ELSE Printed = <<0, -1>>

C10_Witness ==
    /\ done
    /\ prog.name = "order"
    /\ prog.flags[1] = "number"
    /\ prog.n = MaxOperands
    /\ Printed = <<0, -1>>

====
